---- MODULE Spec2Model ----
(***************************************************************************)
(* Verification model of the obfuscation passes and fixtures of oaas:      *)
(*   - the flattened fixture functions (dispatch state machines) against   *)
(*     the original functions of license_validator.c        (SpecFlat)     *)
(*   - the SimpleObfuscator module pass (rename / strip)    (SpecPass)     *)
(*   - the XOR string encryption fixtures                   (SpecStr)      *)
(* C strings are tuples of character codes without the terminating NUL     *)
(* unless a buffer is modelled (SpecStr), where the NUL is explicit.       *)
(***************************************************************************)
EXTENDS Integers, Sequences, FiniteSets, TLC

VARIABLES
  \* ---- flattened fixture run (license_validator_protected.c / _level2.c)
  fn,            \* which flattened function runs
  user_key,      \* the argument (user_key / license_key); NULL or a C string
  rand_val,      \* the value rand() returns at the function entry
  main_addr,     \* the address of main, four 16-bit limbs, most significant first
  fpc,           \* position: "entry", "loop", "exit", "done", "killed"
  _state,
  _next_state,
  _ret_val,
  out,           \* the messages printed so far
  ret,           \* the value returned, <<v>> (<<>> until the function returns)
  dead,          \* the guarded bodies of opaque predicates entered so far
  visited        \* the values _state has taken

flatVars == <<fn, user_key, rand_val, main_addr, fpc, _state, _next_state,
              _ret_val, out, ret, dead, visited>>

VARIABLES
  \* ---- one run of SimpleObfuscator::runOnModule
  IR,            \* the Module M being transformed
  IR0,           \* the Module as it was handed to runOnModule
  pre,           \* the Module as it was before the latest step
  ppc,           \* the next step of runOnModule, "done" after the return
  modified,      \* runOnModule's local "modified"
  rets           \* what the steps run so far returned, in order

passVars == <<IR, IR0, pre, ppc, modified, rets>>

VARIABLES
  \* ---- string encryption fixtures (simple_auth_obfuscated.c)
  prog,          \* "check_password", "decrypt" (a bare decrypt / wipe of a
                 \* ciphertext) or "main" (test_api_simple_string_encrypted.c)
  input,         \* check_password's argument: NULL or a C string
  plain,         \* the byte string that was encrypted
  enc,           \* the ciphertext handed to _decrypt_xor
  len,           \* the length handed to _decrypt_xor
  key,           \* the key handed to _decrypt_xor
  spc,           \* position in the program
  secret,        \* the pointer _decrypt_xor returned: "unset", "null" or "buf"
  heap,          \* the allocated buffer: [state, bytes], state "none", "live", "freed"
  result,        \* check_password's result and, once it returned, its return value
  frees,         \* how many times the buffer was handed to free()
  uaf,           \* the buffer was read or written after it was freed
  uses,          \* the decrypted pointers handed to strcmp / printf so far
  API_KEY,       \* the global char* API_KEY and what it points to: [ptr, bytes]
  DB_PASSWORD,   \* the global char* DB_PASSWORD, likewise
  trace          \* the statements of the process executed so far

globals == <<API_KEY, DB_PASSWORD, trace>>

strVars == <<prog, input, plain, enc, len, key, spc, secret, heap, result, frees, uaf,
             uses, globals>>

vars == <<flatVars, passVars, strVars>>

\* The null pointer; no C string holds the character 0.
NULL == <<0>>
\* An int variable is <<>> while it holds no value and <<v>> once it holds v.
UNINIT == <<>>
IntVal(v) == <<v>>

(***************************************************************************)
(* Character codes and C string helpers                                    *)
(***************************************************************************)
DASH == 45
CH0 == 48
CH9 == 57

strlen(s) == Len(s)

\* strcmp(a, b) = 0 exactly when the two NUL-free strings are equal; the
\* sign of the first differing character otherwise (a proper prefix compares
\* against the other string's NUL).
RECURSIVE strcmp(_, _)
strcmp(a, b) ==
  IF a = <<>> /\ b = <<>> THEN 0
  ELSE IF a = <<>> THEN -1
  ELSE IF b = <<>> THEN 1
  ELSE IF Head(a) < Head(b) THEN -1
  ELSE IF Head(a) > Head(b) THEN 1
  ELSE strcmp(Tail(a), Tail(b))

\* "ACME-2024-PROF-XXXX"
MASTER_KEY == <<65,67,77,69,45,50,48,50,52,45,80,82,79,70,45,88,88,88,88>>
KEY_LENGTH == 19

\* user_key[i] with C's 0-based index
At(s, i) == s[i + 1]

(***************************************************************************)
(* The original functions of license_validator.c                           *)
(***************************************************************************)
RECURSIVE DigitSum(_, _)
DigitSum(k, i) ==
  IF i >= KEY_LENGTH THEN 0
  ELSE (IF At(k, i) >= CH0 /\ At(k, i) <= CH9 THEN At(k, i) - CH0 ELSE 0)
       + DigitSum(k, i + 1)

validate_license_key(k) ==
  IF k = NULL THEN [out |-> <<>>, ret |-> IntVal(0)]
  ELSE IF strlen(k) # KEY_LENGTH
    THEN [out |-> <<"Invalid key length">>, ret |-> IntVal(0)]
  ELSE IF At(k, 4) # DASH \/ At(k, 9) # DASH \/ At(k, 14) # DASH
    THEN [out |-> <<"Invalid key format">>, ret |-> IntVal(0)]
  ELSE IF strcmp(k, MASTER_KEY) = 0
    THEN [out |-> <<"License valid - Professional edition activated">>, ret |-> IntVal(1)]
  ELSE IF DigitSum(k, 0) = 42
    THEN [out |-> <<"License valid - Special edition activated">>, ret |-> IntVal(1)]
  ELSE [out |-> <<"Invalid license key">>, ret |-> IntVal(0)]

check_license_expiry(k) ==
  IF strlen(k) < 9 THEN [out |-> <<>>, ret |-> IntVal(0)]
  ELSE LET year == (At(k, 5) - CH0) * 1000 + (At(k, 6) - CH0) * 100
                   + (At(k, 7) - CH0) * 10 + (At(k, 8) - CH0)
       IN IF year < 2024 THEN [out |-> <<"License expired">>, ret |-> IntVal(0)]
          ELSE [out |-> <<>>, ret |-> IntVal(1)]

Original(f, k) ==
  IF f = "validate_license_key" THEN validate_license_key(k)
  ELSE check_license_expiry(k)

(***************************************************************************)
(* Inputs of the fixture runs                                              *)
(***************************************************************************)
KEY_SPECIAL == <<57,57,57,57,45,54,48,48,48,45,65,65,65,65,45,66,66,66,66>>  \* "9999-6000-AAAA-BBBB", digit sum 42
KEY_EXPIRED == <<65,67,77,69,45,50,48,50,51,45,80,82,79,70,45,88,88,88,88>>  \* "ACME-2023-PROF-XXXX"
KEY_FORMAT == <<65,67,77,69,88,50,48,50,52,45,80,82,79,70,45,88,88,88,88>>   \* "ACMEX2024-PROF-XXXX"
KEY_OTHER == <<65,65,65,65,45,49,49,49,49,45,66,66,66,66,45,67,67,67,67>>    \* "AAAA-1111-BBBB-CCCC"
KEY_NINE == <<65,67,77,69,45,50,48,50,52>>                                   \* "ACME-2024"
KEY_SHORT == <<65,66,67>>                                                    \* "ABC"
KEY_EMPTY == <<>>                                                            \* ""

Strings == {MASTER_KEY, KEY_SPECIAL, KEY_EXPIRED, KEY_FORMAT, KEY_OTHER,
            KEY_NINE, KEY_SHORT, KEY_EMPTY}

\* validate_license_key accepts NULL; check_license_expiry calls strlen on
\* its argument first, so it is only ever given a string.
KeysOf(f) == IF f = "validate_license_key" THEN Strings \cup {NULL} ELSE Strings

RAND_MAX == 2147483647
RandValues == {0, 1, 2, 3, 4, 7, RAND_MAX}

\* Addresses of main on an LP64 target, as four 16-bit limbs.
MainAddrs == { <<0, 0, 64, 4406>>,          \* 0x0000000000401136
               <<0, 21845, 21845, 20809>>,  \* 0x0000555555555149
               <<0, 1, 0, 0>>,              \* 0x0000000100000000
               <<0, 1, 32768, 0>> }         \* 0x0000000180000000

\* (int)&main: the low 32 bits of the address, read as a signed int.
PtrToInt(a) ==
  IF a[3] >= 32768 THEN (a[3] - 65536) * 65536 + a[4] ELSE a[3] * 65536 + a[4]

(***************************************************************************)
(* The injected opaque predicates, evaluated as the code evaluates them    *)
(***************************************************************************)
RandPredicate(r) == (r % 4) >= 4                \* if ((rand() % 4 >= 4))
NullPredicate == 0 # 0                          \* if (((int*)0 != NULL))
VolatilePredicate(v) == v < 0 /\ v > 0          \* if (_v < 0 && _v > 0)
FakeVarPredicate(v, c) == v > c                 \* if (_fake_var > c)
MainPredicate(a) == PtrToInt(a) = 0             \* if (_x == 0), _x = (int)&main

(***************************************************************************)
(* One pass through the switch of a flattened function, for the case       *)
(* label s.  The result says how the case body ends:                       *)
(*   "break"     _next_state := next, then _state := _next_state           *)
(*   "return"    a return statement inside the loop, with value val        *)
(*   "goto_exit" goto _exit, after _ret_val := val (val = UNINIT: no       *)
(*               assignment to _ret_val)                                   *)
(*   "kill"      abort() or exit(1)                                        *)
(* dead names the guarded body of an opaque predicate that was entered.    *)
(* The fixtures carry a dangling copy of the original block header in      *)
(* case 1 ("if (user_key == NULL) {" with no closing brace); the state's   *)
(* transition is the complete if/else that follows it.  In level2 the      *)
(* transition condition is printed as "if (strlen(license_key) {", i.e.    *)
(* the truth value of strlen(license_key).                                 *)
(***************************************************************************)
Break(n) == [kind |-> "break", next |-> n, val |-> UNINIT, dead |-> "none", print |-> <<>>]
Return(v, d) == [kind |-> "return", next |-> 0, val |-> v, dead |-> d, print |-> <<>>]
GotoExit(v) == [kind |-> "goto_exit", next |-> 0, val |-> v, dead |-> "none", print |-> <<>>]
Kill(d, p) == [kind |-> "kill", next |-> 0, val |-> UNINIT, dead |-> d, print |-> p]

ProtectedCase(s, k, a) ==
  CASE s = 0 -> IF NullPredicate THEN Kill("abort", <<"Debug: Should never see this">>) ELSE Break(1)
    [] s = 5 -> IF VolatilePredicate(25) THEN Kill("exit", <<>>) ELSE Break(4)
    [] s = 6 -> IF FakeVarPredicate(53, 7810) THEN Return(IntVal(-1), "return") ELSE GotoExit(IntVal(-1))
    [] s = 3 -> IF MainPredicate(a) THEN Kill("abort", <<>>) ELSE Break(2)
    [] s = 1 -> IF k = NULL THEN Break(2) ELSE Break(3)
    [] s = 7 -> IF VolatilePredicate(85) THEN Kill("exit", <<>>) ELSE Break(3)
    [] s = 2 -> Return(IntVal(0), "none")
    [] s = 4 -> IF VolatilePredicate(33) THEN Kill("exit", <<>>) ELSE Break(4)
    [] OTHER -> GotoExit(UNINIT)

Level2Case(s, k, a) ==
  CASE s = 0 -> Break(1)
    [] s = 7 -> IF MainPredicate(a) THEN Kill("abort", <<>>) ELSE Break(3)
    [] s = 6 -> IF VolatilePredicate(96) THEN Kill("exit", <<>>) ELSE Break(1)
    [] s = 3 -> IF VolatilePredicate(15) THEN Kill("exit", <<>>) ELSE Break(3)
    [] s = 5 -> IF FakeVarPredicate(73, 9454) THEN Return(IntVal(-1), "return") ELSE GotoExit(IntVal(-1))
    [] s = 2 -> Return(IntVal(0), "none")
    [] s = 1 -> IF strlen(k) # 0 THEN Break(2) ELSE Break(3)
    [] s = 4 -> IF MainPredicate(a) THEN Kill("abort", <<>>) ELSE Break(3)
    [] OTHER -> GotoExit(UNINIT)

SwitchCase(f, s, k, a) ==
  IF f = "validate_license_key" THEN ProtectedCase(s, k, a) ELSE Level2Case(s, k, a)

\* A read of the uninitialized _ret_val yields any int; these stand for them.
IndeterminateInts == {IntVal(-1), IntVal(0), IntVal(1), IntVal(42)}

Functions == {"validate_license_key", "check_license_expiry"}

\* The variables of the other parts of the model, at rest.
EmptyModule == [funcs |-> <<>>, dbgcu |-> FALSE, LastUnique |-> 0]
PassIdle ==
  /\ IR = EmptyModule /\ IR0 = EmptyModule /\ pre = EmptyModule
  /\ ppc = "idle" /\ modified = FALSE /\ rets = <<>>

\* char* API_KEY = NULL;
NullPointer == [ptr |-> "null", bytes |-> <<>>]

StrIdle ==
  /\ prog = "idle" /\ input = NULL /\ plain = <<>> /\ enc = <<>> /\ len = 0 /\ key = 0
  /\ spc = "idle" /\ secret = "unset" /\ heap = [state |-> "none", bytes |-> <<>>]
  /\ result = UNINIT /\ frees = 0 /\ uaf = FALSE
  /\ uses = <<>> /\ API_KEY = NullPointer /\ DB_PASSWORD = NullPointer /\ trace = <<>>

FlatInit ==
  /\ fn \in Functions
  /\ user_key \in KeysOf(fn)
  /\ rand_val \in RandValues
  /\ main_addr \in MainAddrs
  /\ fpc = "entry"
  /\ _state = 0
  /\ _next_state = 0
  /\ _ret_val = UNINIT
  /\ out = <<>>
  /\ ret = UNINIT
  /\ dead = {}
  /\ visited = {}
  /\ PassIdle
  /\ StrIdle

\* From the call to the first evaluation of switch (_state): the
\* declarations and, in validate_license_key, the predicate before the loop.
FlatEnter ==
  /\ fpc = "entry"
  /\ IF fn = "validate_license_key" /\ RandPredicate(rand_val)
       THEN /\ dead' = dead \cup {"free"}      \* free((void*)0xDEADBEEF); return -1;
            /\ ret' = IntVal(-1)
            /\ fpc' = "done"
            /\ visited' = visited
       ELSE /\ fpc' = "loop"
            /\ visited' = visited \cup {_state}
            /\ UNCHANGED <<dead, ret>>
  /\ UNCHANGED <<fn, user_key, rand_val, main_addr, _state, _next_state, _ret_val, out>>
  /\ UNCHANGED <<passVars, strVars>>

\* One iteration of while (1) { switch (_state) ... _state = _next_state; },
\* or the statement at the _exit label once a goto has left the loop.
FlatStep ==
  /\ fpc \in {"loop", "exit"}
  /\ IF fpc = "exit"
       THEN /\ ret' \in (IF _ret_val = UNINIT THEN IndeterminateInts ELSE {_ret_val})
            /\ fpc' = "done"
            /\ UNCHANGED <<_state, _next_state, _ret_val, dead, visited, out>>
       ELSE LET c == SwitchCase(fn, _state, user_key, main_addr) IN
            /\ dead' = IF c.dead = "none" THEN dead ELSE dead \cup {c.dead}
            /\ _next_state' = IF c.kind = "break" THEN c.next ELSE _next_state
            /\ _state' = IF c.kind = "break" THEN c.next ELSE _state
            /\ visited' = IF c.kind = "break" THEN visited \cup {c.next} ELSE visited
            /\ _ret_val' = IF c.kind = "goto_exit" /\ c.val # UNINIT THEN c.val ELSE _ret_val
            /\ ret' = IF c.kind = "return" THEN c.val ELSE ret
            /\ out' = out \o c.print
            /\ fpc' = CASE c.kind = "break" -> "loop"
                        [] c.kind = "return" -> "done"
                        [] c.kind = "goto_exit" -> "exit"
                        [] OTHER -> "killed"
  /\ UNCHANGED <<fn, user_key, rand_val, main_addr>>
  /\ UNCHANGED <<passVars, strVars>>

FlatNext == FlatEnter \/ FlatStep

SpecFlat == FlatInit /\ [][FlatNext]_vars

\* The case labels whose body is only an injected predicate (or the injected
\* "return -1" stub): they stand for no block of the original function.
\* Cases 0, 1 and 2 carry the entry, the first condition and its "return 0".
DecoyStates(f) ==
  IF f = "validate_license_key" THEN {3, 4, 5, 6, 7} ELSE {3, 4, 5, 6, 7}

(***************************************************************************)
(* Claims about the flattened fixtures                                     *)
(***************************************************************************)

\* C1: once a flattened fixture function has returned, the messages it
\* printed and the value it returned are those of the original function of
\* license_validator.c on the same input.
C1_FlattenedMatchesOriginal ==
  fpc = "done" =>
    /\ out = Original(fn, user_key).out
    /\ ret = Original(fn, user_key).ret

\* C8: no guarded body of an injected opaque predicate (free of an invalid
\* address, abort, exit(1), return -1) is ever executed, whatever the key,
\* the value of rand() and the address of main.
C8_DeadBranchNeverEntered == dead = {}

\* C9: _state never takes the identifier of a decoy state in a run that
\* starts with _state = 0.
C9_DecoyStatesUnreachable == visited \cap DecoyStates(fn) = {}

\* C17: every way of leaving the dispatch loop goes through the _exit label
\* with the return value recorded in _ret_val: once a flattened function
\* that entered its loop has returned, _ret_val has been assigned and the
\* value returned is the recorded _ret_val.
C17_ReturnsThroughExit ==
  (fpc = "done" /\ visited # {}) =>
    /\ _ret_val # UNINIT
    /\ ret = _ret_val

\* The case labels of the dispatch switch.
C18_CaseLabels == 0..7

\* Whether the dispatch loop, started in state s, leaves the loop (return,
\* goto _exit, abort or exit) within n further iterations.
RECURSIVE C18_LeavesWithin(_, _, _, _, _)
C18_LeavesWithin(f, s, k, a, n) ==
  LET c == SwitchCase(f, s, k, a)
  IN  IF c.kind # "break" THEN TRUE
      ELSE IF n = 0 THEN FALSE
      ELSE C18_LeavesWithin(f, c.next, k, a, n - 1)

\* C18: the dispatch loop terminates: from every state the loop reaches
\* when started with _state = 0 the loop is left after finitely many
\* iterations. The next state depends on _state and the arguments only, so
\* a run that has not left after as many iterations as there are case
\* labels is in a cycle it never leaves.
C18_DispatchLoopTerminates ==
  fpc = "loop" =>
    C18_LeavesWithin(fn, _state, user_key, main_addr, Cardinality(C18_CaseLabels))

(***************************************************************************)
(* SimpleObfuscator.cpp: the IR the pass works on                          *)
(*                                                                         *)
(* A name is the tuple of its characters; <<>> is "no name".               *)
(* Module:   [funcs, dbgcu, LastUnique]   dbgcu: the named metadata        *)
(*           "llvm.dbg.cu" exists; LastUnique: the counter of the module's *)
(*           symbol table                                                  *)
(* Function: [name, decl, linkage, args, blocks, LastUnique]               *)
(*           args: the argument names; blocks: the basic blocks, each the  *)
(*           tuple of its instructions                                     *)
(* Instr:    [name, void, op, callee]     op: "call", "other", "br", "ret" *)
(*           callee: index of the called Function in funcs, 0 when         *)
(*           getCalledFunction() is null (indirect call) or op is no call  *)
(***************************************************************************)
Digits == <<"0", "1", "2", "3", "4", "5", "6", "7", "8", "9">>

\* std::to_string(int) for n >= 0
RECURSIVE to_string(_)
to_string(n) ==
  IF n < 10 THEN <<Digits[n + 1]>>
  ELSE to_string(n \div 10) \o <<Digits[(n % 10) + 1]>>

\* StringRef::startswith
startswith(name, prefix) ==
  /\ Len(name) >= Len(prefix)
  /\ SubSeq(name, 1, Len(prefix)) = prefix

LLVM_DOT == <<"l", "l", "v", "m", ".">>                        \* "llvm."
LLVM_DBG_DOT == <<"l", "l", "v", "m", ".", "d", "b", "g", ".">>  \* "llvm.dbg."

\* Function::isIntrinsic(): the function carries a name reserved for LLVM.
isIntrinsic(F) == startswith(F.name, LLVM_DOT)

hasName(n) == n # <<>>

(***************************************************************************)
(* Value::setName as the pass calls it.  Names live in a symbol table (the *)
(* module's for functions, the function's for arguments and instructions)  *)
(* that holds each name once: a name already taken by another value gets   *)
(* the table's next free counter appended, after a "." for a global.       *)
(***************************************************************************)
RECURSIVE makeUniqueName(_, _, _, _)
makeUniqueName(vmap, Name, LastUnique, dot) ==
  LET UniqueName == Name \o dot \o to_string(LastUnique + 1)
  IN IF UniqueName \notin vmap
       THEN [name |-> UniqueName, LastUnique |-> LastUnique + 1]
       ELSE makeUniqueName(vmap, Name, LastUnique + 1, dot)

createValueName(vmap, Name, LastUnique, dot) ==
  IF Name \notin vmap
    THEN [name |-> Name, LastUnique |-> LastUnique]
    ELSE makeUniqueName(vmap, Name, LastUnique, dot)

\* old: the value's current name; vmap: the names in its symbol table.
setName(old, Name, vmap, LastUnique, dot) ==
  IF old = Name THEN [name |-> old, LastUnique |-> LastUnique]
  ELSE createValueName(vmap \ {old}, Name, LastUnique, dot)

FunctionNames(M) == {M.funcs[i].name : i \in DOMAIN M.funcs}

ArgNames(F) == {F.args[a] : a \in DOMAIN F.args}
InstrNames(F) ==
  UNION {{F.blocks[b][i].name : i \in DOMAIN F.blocks[b]} : b \in DOMAIN F.blocks}
\* The names in the function's symbol table.
LocalNames(F) == (ArgNames(F) \cup InstrNames(F)) \ {<<>>}

(***************************************************************************)
(* renameFunctions                                                         *)
(***************************************************************************)
CanRename(F) ==
  /\ ~F.decl
  /\ ~isIntrinsic(F)
  /\ ~startswith(F.name, LLVM_DOT)
  /\ F.linkage # "external"

RECURSIVE Collect(_, _)
Collect(M, i) ==
  IF i > Len(M.funcs) THEN <<>>
  ELSE (IF CanRename(M.funcs[i]) THEN <<i>> ELSE <<>>) \o Collect(M, i + 1)

functionsToRename(M) == Collect(M, 1)

NewFunctionName(funcCounter) == <<"f">> \o to_string(funcCounter)

\* Mutant: the new name is written without going through the symbol table.
RenameFunction_Raw(M, i, funcCounter) ==
  [M EXCEPT !.funcs[i].name = NewFunctionName(funcCounter)]

RenameFunction(M, i, funcCounter) ==
  LET r == setName(M.funcs[i].name, NewFunctionName(funcCounter),
                   FunctionNames(M), M.LastUnique, <<".">>)
  IN [M EXCEPT !.funcs[i].name = r.name, !.LastUnique = r.LastUnique]

RECURSIVE RenameCollected(_, _, _)
RenameCollected(M, list, funcCounter) ==
  IF list = <<>> THEN M
  ELSE RenameCollected(RenameFunction(M, Head(list), funcCounter),
                       Tail(list), funcCounter + 1)

renameFunctions(M) ==
  [M |-> RenameCollected(M, functionsToRename(M), 1),
   modified |-> functionsToRename(M) # <<>>]

(***************************************************************************)
(* renameVariables                                                         *)
(***************************************************************************)
NewVariableName(varCounter) == <<"v">> \o to_string(varCounter)

\* st = [F, varCounter, modified], the loop state inside one function
RenameArg(st, a) ==
  IF hasName(st.F.args[a])
    THEN LET r == setName(st.F.args[a], NewVariableName(st.varCounter),
                          LocalNames(st.F), st.F.LastUnique, <<>>)
         IN [F |-> [st.F EXCEPT !.args[a] = r.name, !.LastUnique = r.LastUnique],
             varCounter |-> st.varCounter + 1,
             modified |-> TRUE]
    ELSE st

\* Mutant: varCounter++ is evaluated for every instruction, also for the
\* unnamed and void ones that are not renamed.
RenameInstr_CountsAll(st, b, i) ==
  IF hasName(st.F.blocks[b][i].name) /\ ~st.F.blocks[b][i].void
    THEN LET r == setName(st.F.blocks[b][i].name, NewVariableName(st.varCounter),
                          LocalNames(st.F), st.F.LastUnique, <<>>)
         IN [F |-> [st.F EXCEPT !.blocks[b][i].name = r.name,
                                !.LastUnique = r.LastUnique],
             varCounter |-> st.varCounter + 1,
             modified |-> TRUE]
    ELSE [st EXCEPT !.varCounter = st.varCounter + 1]

RenameInstr(st, b, i) ==
  IF hasName(st.F.blocks[b][i].name) /\ ~st.F.blocks[b][i].void
    THEN LET r == setName(st.F.blocks[b][i].name, NewVariableName(st.varCounter),
                          LocalNames(st.F), st.F.LastUnique, <<>>)
         IN [F |-> [st.F EXCEPT !.blocks[b][i].name = r.name,
                                !.LastUnique = r.LastUnique],
             varCounter |-> st.varCounter + 1,
             modified |-> TRUE]
    ELSE st

RECURSIVE RenameArgs(_, _)
RenameArgs(st, a) ==
  IF a > Len(st.F.args) THEN st ELSE RenameArgs(RenameArg(st, a), a + 1)

RECURSIVE RenameInstrs(_, _, _)
RenameInstrs(st, b, i) ==
  IF b > Len(st.F.blocks) THEN st
  ELSE IF i > Len(st.F.blocks[b]) THEN RenameInstrs(st, b + 1, 1)
  ELSE RenameInstrs(RenameInstr(st, b, i), b, i + 1)

\* The body of "for (Function &F : M)" for one function.
RenameInFunction(F) ==
  IF F.decl THEN [F |-> F, varCounter |-> 1, modified |-> FALSE]
  ELSE RenameInstrs(RenameArgs([F |-> F, varCounter |-> 1, modified |-> FALSE], 1), 1, 1)

renameVariables(M) ==
  [M |-> [M EXCEPT !.funcs = [i \in DOMAIN M.funcs |-> RenameInFunction(M.funcs[i]).F]],
   modified |-> \E i \in DOMAIN M.funcs : RenameInFunction(M.funcs[i]).modified]

(***************************************************************************)
(* stripDebugInfo                                                          *)
(***************************************************************************)
\* Mutant: the null check of the callee is dropped and a call without a
\* known callee is collected as well.
IsDebugCall_OrIndirect(M, I) ==
  /\ I.op = "call"
  /\ (I.callee = 0 \/ startswith(M.funcs[I.callee].name, LLVM_DBG_DOT))

\* dyn_cast<CallInst>(&I) with a known callee named "llvm.dbg.*"
IsDebugCall(M, I) ==
  /\ I.op = "call"
  /\ I.callee # 0
  /\ startswith(M.funcs[I.callee].name, LLVM_DBG_DOT)

\* The instructions of toRemove, as the places (function, block, index).
toRemove(M) ==
  {<<f, b, i>> \in UNION {UNION {{<<f, b, i>> : i \in DOMAIN M.funcs[f].blocks[b]}
                                  : b \in DOMAIN M.funcs[f].blocks}
                          : f \in DOMAIN M.funcs} :
      IsDebugCall(M, M.funcs[f].blocks[b][i])}

\* eraseFromParent on every collected instruction of a block
EraseFrom(M, block) == SelectSeq(block, LAMBDA I : ~IsDebugCall(M, I))

\* Mutant: the calls are erased but the named metadata is left in place.
stripDebugInfo_KeepsMetadata(M) ==
  [M |-> [M EXCEPT
            !.funcs = [f \in DOMAIN M.funcs |->
                        [M.funcs[f] EXCEPT
                           !.blocks = [b \in DOMAIN M.funcs[f].blocks |->
                                         EraseFrom(M, M.funcs[f].blocks[b])]]]],
   modified |-> toRemove(M) # {} \/ M.dbgcu]

stripDebugInfo(M) ==
  [M |-> [M EXCEPT
            !.funcs = [f \in DOMAIN M.funcs |->
                        [M.funcs[f] EXCEPT
                           !.blocks = [b \in DOMAIN M.funcs[f].blocks |->
                                         EraseFrom(M, M.funcs[f].blocks[b])]]],
            !.dbgcu = FALSE],
   modified |-> toRemove(M) # {} \/ M.dbgcu]

(***************************************************************************)
(* Input modules                                                           *)
(***************************************************************************)
MaxFuncs == 2

N_f1 == <<"f", "1">>
N_f2 == <<"f", "2">>
N_g == <<"g">>
N_x == <<"x">>
N_y == <<"y">>
N_r == <<"r">>
N_v1 == <<"v", "1">>
N_v2 == <<"v", "2">>
N_dbg_value == LLVM_DBG_DOT \o <<"v", "a", "l", "u", "e">>   \* "llvm.dbg.value"

Val(n) == [name |-> n, void |-> FALSE, op |-> "other", callee |-> 0]
Store == [name |-> <<>>, void |-> TRUE, op |-> "other", callee |-> 0]
Call(c) == [name |-> <<>>, void |-> TRUE, op |-> "call", callee |-> c]
CallVal(n, c) == [name |-> n, void |-> FALSE, op |-> "call", callee |-> c]
Br == [name |-> <<>>, void |-> TRUE, op |-> "br", callee |-> 0]
Ret == [name |-> <<>>, void |-> TRUE, op |-> "ret", callee |-> 0]

\* Function bodies of a module of n functions: arguments and blocks.
Bodies(n) ==
  { [args |-> <<>>, blocks |-> << <<Ret>> >>],
    [args |-> <<N_x, <<>> >>, blocks |-> << <<Val(N_v1), Store, Val(<<>>), Ret>> >>],
    [args |-> <<N_v2, N_v1>>, blocks |-> << <<Val(N_y), Br>>, <<Ret>> >>],
    [args |-> <<N_v1>>, blocks |-> << <<Val(N_v2), Ret>> >>] }
  \cup
  { [args |-> <<N_x>>,
     blocks |-> << <<Call(c), Val(N_y), Br>>,
                   <<CallVal(N_r, 0), Call(c), Val(N_v2), Ret>> >>] : c \in 1..n }

Definitions(n) ==
  { [name |-> nm, decl |-> FALSE, linkage |-> l, args |-> b.args,
     blocks |-> b.blocks, LastUnique |-> 0] :
      nm \in {N_f1, N_f2, N_g}, l \in {"internal", "external"}, b \in Bodies(n) }

Declarations ==
  { [name |-> nm, decl |-> TRUE, linkage |-> "external", args |-> a,
     blocks |-> <<>>, LastUnique |-> 0] :
      nm \in {N_f1, N_f2, N_g}, a \in {<<>>, <<N_x>>} }
  \cup
  { [name |-> N_dbg_value, decl |-> TRUE, linkage |-> "external", args |-> <<>>,
     blocks |-> <<>>, LastUnique |-> 0] }

\* The module's symbol table holds every function name once.
DistinctFunctionNames(fs) ==
  \A i, j \in DOMAIN fs : i # j => fs[i].name # fs[j].name

\* m is a module of 1..MaxFuncs functions, with or without "llvm.dbg.cu".
IsInputModule(m) ==
  \E n \in 1..MaxFuncs :
    \E fs \in [1..n -> Definitions(n) \cup Declarations] :
      \E d \in BOOLEAN :
        /\ DistinctFunctionNames(fs)
        /\ m = [funcs |-> fs, dbgcu |-> d, LastUnique |-> 0]

(***************************************************************************)
(* runOnModule                                                             *)
(***************************************************************************)
FlatIdle ==
  /\ fn = "validate_license_key" /\ user_key = NULL /\ rand_val = 0
  /\ main_addr = <<0, 0, 0, 0>> /\ fpc = "idle" /\ _state = 0 /\ _next_state = 0
  /\ _ret_val = UNINIT /\ out = <<>> /\ ret = UNINIT /\ dead = {} /\ visited = {}

PassInit ==
  /\ IsInputModule(IR)
  /\ IR0 = IR
  /\ pre = IR
  /\ ppc = "renameFunctions"
  /\ modified = FALSE
  /\ rets = <<>>
  /\ FlatIdle
  /\ StrIdle

\* Mutant: "modified = step(M)", the flag is overwritten instead of or-ed.
Step_Assign(r, next) ==
  /\ pre' = IR
  /\ IR' = r.M
  /\ modified' = r.modified
  /\ rets' = Append(rets, r.modified)
  /\ ppc' = next
  /\ UNCHANGED IR0
  /\ UNCHANGED <<flatVars, strVars>>

Step(r, next) ==
  /\ pre' = IR
  /\ IR' = r.M
  /\ modified' = (modified \/ r.modified)
  /\ rets' = Append(rets, r.modified)
  /\ ppc' = next
  /\ UNCHANGED IR0
  /\ UNCHANGED <<flatVars, strVars>>

\* modified |= renameFunctions(M);
RunRenameFunctions ==
  /\ ppc = "renameFunctions"
  /\ Step(renameFunctions(IR), "renameVariables")

\* modified |= renameVariables(M);
RunRenameVariables ==
  /\ ppc = "renameVariables"
  /\ Step(renameVariables(IR), "stripDebugInfo")

\* modified |= stripDebugInfo(M);  return modified;
RunStripDebugInfo ==
  /\ ppc = "stripDebugInfo"
  /\ Step(stripDebugInfo(IR), "done")

PassNext == RunRenameFunctions \/ RunRenameVariables \/ RunStripDebugInfo

SpecPass == PassInit /\ [][PassNext]_vars

(***************************************************************************)
(* Claims about the pass                                                   *)
(***************************************************************************)
RECURSIVE Concat(_)
Concat(ss) == IF ss = <<>> THEN <<>> ELSE Head(ss) \o Concat(Tail(ss))

\* How many positions up to p of the sequence es satisfy Test.
Rank(es, p, Test(_)) == Cardinality({q \in 1..p : Test(es[q])})

\* The functions the renaming is about: definitions with non-external
\* linkage that are no intrinsics and carry no "llvm." name.
C2_Eligible(F) ==
  /\ ~F.decl
  /\ F.linkage # "external"
  /\ ~startswith(F.name, LLVM_DOT)

\* C2: after renameFunctions the k-th eligible function of the module is
\* named exactly f<k>, and every other function keeps its name.
C2_FunctionsNamedSequentially ==
  ppc = "renameVariables" =>
    \A i \in DOMAIN IR.funcs :
      IF C2_Eligible(pre.funcs[i])
        THEN IR.funcs[i].name = <<"f">> \o to_string(Rank(pre.funcs, i, C2_Eligible))
        ELSE IR.funcs[i].name = pre.funcs[i].name

\* The arguments and instructions of a function in renaming order, each
\* with its name and whether it is void.
C3_Entities(F) ==
  [a \in DOMAIN F.args |-> [name |-> F.args[a], void |-> FALSE]]
  \o Concat([b \in DOMAIN F.blocks |->
               [i \in DOMAIN F.blocks[b] |->
                  [name |-> F.blocks[b][i].name, void |-> F.blocks[b][i].void]]])

C3_Eligible(e) == e.name # <<>> /\ ~e.void

\* C3: after renameVariables, in every defined function the k-th named
\* argument or named non-void instruction is named exactly v<k>; unnamed
\* values, void instructions and the arguments of declarations keep their
\* (absence of) name.
C3_VariablesNamedSequentially ==
  ppc = "stripDebugInfo" =>
    \A i \in DOMAIN IR.funcs :
      LET before == C3_Entities(pre.funcs[i])
          after == C3_Entities(IR.funcs[i])
      IN /\ Len(after) = Len(before)
         /\ \A p \in DOMAIN before :
              IF ~pre.funcs[i].decl /\ C3_Eligible(before[p])
                THEN after[p].name = <<"v">> \o to_string(Rank(before, p, C3_Eligible))
                ELSE after[p].name = before[p].name

C4_NoDuplicates(names) ==
  \A p, q \in DOMAIN names :
    (p # q /\ names[p] # <<>>) => names[p] # names[q]

\* C4: after the rename steps no two functions of the module share a name,
\* and within a function no two arguments or instruction results do.
C4_NamesUniqueAfterRenaming ==
  ppc \in {"stripDebugInfo", "done"} =>
    /\ C4_NoDuplicates([i \in DOMAIN IR.funcs |-> IR.funcs[i].name])
    /\ \A i \in DOMAIN IR.funcs :
         C4_NoDuplicates([p \in DOMAIN C3_Entities(IR.funcs[i]) |->
                            C3_Entities(IR.funcs[i])[p].name])

\* Witness of C4: both rename steps have run on a module in which a function
\* that is not renamed is called f1 while another one is renamed, and in
\* which a function has a named argument followed by a value called v1.
C4_Witness ==
  /\ ppc = "stripDebugInfo"
  /\ \E i, j \in DOMAIN IR0.funcs :
       /\ ~C2_Eligible(IR0.funcs[i]) /\ IR0.funcs[i].name = N_f1
       /\ C2_Eligible(IR0.funcs[j])
  /\ \E i \in DOMAIN IR0.funcs :
       /\ ~IR0.funcs[i].decl
       /\ IR0.funcs[i].args # <<>> /\ IR0.funcs[i].args[1] = N_x
       /\ N_v1 \in InstrNames(IR0.funcs[i])

\* A call instruction whose known callee carries an "llvm.dbg." name.
C5_DebugCalls(m) ==
  {<<f, b, i>> \in UNION {UNION {{<<f, b, i>> : i \in DOMAIN m.funcs[f].blocks[b]}
                                  : b \in DOMAIN m.funcs[f].blocks}
                          : f \in DOMAIN m.funcs} :
      LET I == m.funcs[f].blocks[b][i]
      IN /\ I.op = "call"
         /\ I.callee # 0
         /\ startswith(m.funcs[I.callee].name, LLVM_DBG_DOT)}

C5_Post(before, r) ==
  /\ C5_DebugCalls(r.M) = {}
  /\ ~r.M.dbgcu
  /\ r.modified <=> (C5_DebugCalls(before) # {} \/ before.dbgcu)

\* C5: after stripDebugInfo no call to an "llvm.dbg." function and no
\* "llvm.dbg.cu" metadata is left, and the step returns true exactly when
\* one of them was there before; for the module runOnModule hands it and for
\* the module as it came in.
C5_StripRemovesAllDebugInfo ==
  /\ ppc = "done" => C5_Post(pre, [M |-> IR, modified |-> rets[3]])
  /\ ppc # "idle" => C5_Post(IR0, stripDebugInfo(IR0))

\* Witness of C5: the step has run on a module that had debug calls and the
\* compile-unit metadata.
C5_Witness ==
  /\ ppc = "done"
  /\ C5_DebugCalls(pre) # {}
  /\ pre.dbgcu
  /\ rets[3]

(***************************************************************************)
(* String encryption: simple_auth.c and simple_auth_obfuscated.c           *)
(* A byte is a number in 0..255; a buffer is the tuple of its bytes.       *)
(***************************************************************************)
MaxLen == 2

\* a ^ b on bytes
RECURSIVE xor(_, _)
xor(a, b) ==
  IF a = 0 THEN b
  ELSE IF b = 0 THEN a
  ELSE (((a % 2) + (b % 2)) % 2) + 2 * xor(a \div 2, b \div 2)

\* The C string a buffer holds: its bytes before the first NUL.
RECURSIVE CStr(_)
CStr(buf) ==
  IF buf = <<>> \/ Head(buf) = 0 THEN <<>> ELSE <<Head(buf)>> \o CStr(Tail(buf))

\* "admin123"
SECRET_PASSWORD == <<97, 100, 109, 105, 110, 49, 50, 51>>

\* check_password of simple_auth.c
check_password(in) ==
  IF in = NULL THEN 0
  ELSE IF strcmp(in, SECRET_PASSWORD) = 0 THEN 1
  ELSE 0

\* static const unsigned char _encrypted_password[]
_encrypted_password == <<202, 207, 198, 194, 197, 154, 153, 152>>
PASSWORD_LEN == 8
PASSWORD_KEY == 171     \* 0xAB

\* The encryption the ciphertext table was made with: c[i] = S[i] ^ key.
encrypt(S, k) == [i \in DOMAIN S |-> xor(S[i], k)]

\* Mutant: the loop runs while i < len - 1, the last byte is never decrypted.
_decrypt_xor_ShortLoop(e, n, k, ok) ==
  IF ~ok THEN [ptr |-> "null", bytes |-> <<>>]
  ELSE [ptr |-> "buf",
        bytes |-> [i \in 1..(n + 1) |-> IF i < n THEN xor(e[i], k) ELSE 0]]

\* _decrypt_xor(enc, len, key); ok: malloc(len + 1) succeeded.
_decrypt_xor(e, n, k, ok) ==
  IF ~ok THEN [ptr |-> "null", bytes |-> <<>>]
  ELSE [ptr |-> "buf",
        bytes |-> [i \in 1..(n + 1) |-> IF i <= n THEN xor(e[i], k) ELSE 0]]

\* The loop of _secure_free: ptr[i] = 0 for i < strlen(ptr).
Wipe(bytes) ==
  [i \in DOMAIN bytes |-> IF i <= strlen(CStr(bytes)) THEN 0 ELSE bytes[i]]

\* Mutant: strcmp(...) != 0 instead of == 0.
CompareResult_Inverted(in, sec) == IF strcmp(in, CStr(sec)) # 0 THEN 1 ELSE 0

\* (strcmp(input, secret) == 0) ? 1 : 0
CompareResult(in, sec) == IF strcmp(in, CStr(sec)) = 0 THEN 1 ELSE 0

\* Mutant: the result is returned right after the comparison.
AfterCompare_NoCleanup == "return"

\* The statement after "int result = ...": the _secure_free(secret) call.
AfterCompare == "free"

\* The compound literals and arguments of the two _xor_decrypt calls of
\* _init_encrypted_strings.
API_KEY_ENC ==
  <<236, 250, 252, 237, 250, 235, 192, 254, 239, 246,
    192, 244, 250, 230, 192, 174, 173, 172, 171, 170>>
API_KEY_LEN == 20
API_KEY_XOR == 159      \* 0x9f
DB_PASSWORD_ENC ==
  <<137, 143, 178, 157, 140, 158, 158, 178, 157, 159, 130, 137, 178, 223, 221, 223, 217>>
DB_PASSWORD_LEN == 17
DB_PASSWORD_XOR == 237  \* 0xed

\* _xor_decrypt(enc, len, key); ok: malloc(len + 1) succeeded.
_xor_decrypt(e, n, k, ok) ==
  IF ~ok THEN NullPointer
  ELSE [ptr |-> "buf",
        bytes |-> [i \in 1..(n + 1) |-> IF i <= n THEN xor(e[i], k) ELSE 0]]

\* The statements of a function of test_api_simple_string_encrypted.c.
Body(f) ==
  IF f = "_init_encrypted_strings"
    THEN <<"API_KEY = _xor_decrypt", "DB_PASSWORD = _xor_decrypt">>
    ELSE <<"printf API_KEY", "printf DB_PASSWORD", "return 0">>

\* Mutant: the initializer is an ordinary function that main's caller runs
\* after main.
StartupOrder_MainFirst == <<"main", "_init_encrypted_strings">>

\* __attribute__((constructor)): the runtime calls _init_encrypted_strings,
\* once, before it calls main.
StartupOrder == <<"_init_encrypted_strings", "main">>

\* Everything the process executes, in order.
ProcessStatements == Body(StartupOrder[1]) \o Body(StartupOrder[2])

\* The statement executed after stmt; "done" after the last one.
Following(stmt) ==
  LET i == CHOOSE j \in DOMAIN ProcessStatements : ProcessStatements[j] = stmt
  IN  IF i = Len(ProcessStatements) THEN "done" ELSE ProcessStatements[i + 1]

Bytes == {0, 1, 97, 171, 255}
Keys == {1, 171, 255}
ByteStrings == UNION {[1..n -> Bytes] : n \in 1..MaxLen}

Passwords ==
  { NULL, SECRET_PASSWORD,
    <<>>,                                       \* ""
    <<119, 114, 111, 110, 103>>,                \* "wrong"
    <<97, 100, 109, 105, 110, 49, 50>>,         \* "admin12"
    <<97, 100, 109, 105, 110, 49, 50, 51, 52>>, \* "admin1234"
    <<65, 100, 109, 105, 110, 49, 50, 51>> }    \* "Admin123"

StrInit ==
  /\ prog \in {"check_password", "decrypt", "main"}
  /\ IF prog = "check_password"
       THEN /\ input \in Passwords
            /\ plain = SECRET_PASSWORD
            /\ enc = _encrypted_password
            /\ len = PASSWORD_LEN
            /\ key = PASSWORD_KEY
            /\ spc = "check_input"
       ELSE IF prog = "main"
       THEN /\ input = NULL
            /\ plain = <<>>
            /\ enc = <<>>
            /\ len = 0
            /\ key = 0
            /\ spc = ProcessStatements[1]
       ELSE /\ input = NULL
            /\ plain \in ByteStrings
            /\ key \in Keys
            /\ enc = encrypt(plain, key)
            /\ len = Len(plain)
            /\ spc = "decrypt"
  /\ secret = "unset"
  /\ heap = [state |-> "none", bytes |-> <<>>]
  /\ result = UNINIT
  /\ frees = 0
  /\ uaf = FALSE
  /\ uses = <<>>
  /\ API_KEY = NullPointer
  /\ DB_PASSWORD = NullPointer
  /\ trace = <<>>
  /\ FlatIdle
  /\ PassIdle

\* if (input == NULL) return 0;
CheckInput ==
  /\ spc = "check_input"
  /\ IF input = NULL
       THEN result' = IntVal(0) /\ spc' = "done"
       ELSE result' = result /\ spc' = "decrypt"
  /\ UNCHANGED <<prog, input, plain, enc, len, key, secret, heap, frees, uaf>>
  /\ UNCHANGED <<flatVars, passVars, uses, globals>>

\* char* secret = _decrypt_xor(_encrypted_password, 8, 0xAB);
Decrypt ==
  /\ spc = "decrypt"
  /\ \E ok \in BOOLEAN :
       LET r == _decrypt_xor(enc, len, key, ok) IN
       /\ secret' = r.ptr
       /\ heap' = IF ok THEN [state |-> "live", bytes |-> r.bytes] ELSE heap
  /\ spc' = IF prog = "check_password" THEN "check_secret"
            ELSE IF secret' = "null" THEN "done" ELSE "free"
  /\ UNCHANGED <<prog, input, plain, enc, len, key, result, frees, uaf>>
  /\ UNCHANGED <<flatVars, passVars, uses, globals>>

\* if (!secret) return 0;
CheckSecret ==
  /\ spc = "check_secret"
  /\ IF secret = "null"
       THEN result' = IntVal(0) /\ spc' = "done"
       ELSE result' = result /\ spc' = "compare"
  /\ UNCHANGED <<prog, input, plain, enc, len, key, secret, heap, frees, uaf>>
  /\ UNCHANGED <<flatVars, passVars, uses, globals>>

\* int result = (strcmp(input, secret) == 0) ? 1 : 0;
Compare ==
  /\ spc = "compare"
  /\ result' = IntVal(CompareResult(input, heap.bytes))
  /\ uaf' = (uaf \/ heap.state # "live")
  /\ uses' = Append(uses, [callee |-> "strcmp", ptr |-> secret])
  /\ spc' = AfterCompare
  /\ UNCHANGED <<prog, input, plain, enc, len, key, secret, heap, frees>>
  /\ UNCHANGED <<flatVars, passVars, globals>>

\* _secure_free(secret);
SecureFree ==
  /\ spc = "free"
  /\ IF secret = "buf"
       THEN /\ heap' = [state |-> "freed", bytes |-> Wipe(heap.bytes)]
            /\ frees' = frees + 1
            /\ uaf' = (uaf \/ heap.state # "live")
       ELSE UNCHANGED <<heap, frees, uaf>>
  /\ spc' = IF prog = "check_password" THEN "return" ELSE "done"
  /\ UNCHANGED <<prog, input, plain, enc, len, key, secret, result>>
  /\ UNCHANGED <<flatVars, passVars, uses, globals>>

\* return result;
ReturnResult ==
  /\ spc = "return"
  /\ spc' = "done"
  /\ UNCHANGED <<prog, input, plain, enc, len, key, secret, heap, result, frees, uaf>>
  /\ UNCHANGED <<flatVars, passVars, uses, globals>>

\* API_KEY = _xor_decrypt((const unsigned char[]){0xec, ...}, 20, 0x9f);
InitApiKey ==
  /\ spc = "API_KEY = _xor_decrypt"
  /\ \E ok \in BOOLEAN :
       API_KEY' = _xor_decrypt(API_KEY_ENC, API_KEY_LEN, API_KEY_XOR, ok)
  /\ trace' = Append(trace, spc)
  /\ spc' = Following(spc)
  /\ UNCHANGED <<prog, input, plain, enc, len, key, secret, heap, result, frees, uaf>>
  /\ UNCHANGED <<flatVars, passVars, uses, DB_PASSWORD>>

\* DB_PASSWORD = _xor_decrypt((const unsigned char[]){0x89, ...}, 17, 0xed);
InitDbPassword ==
  /\ spc = "DB_PASSWORD = _xor_decrypt"
  /\ \E ok \in BOOLEAN :
       DB_PASSWORD' = _xor_decrypt(DB_PASSWORD_ENC, DB_PASSWORD_LEN, DB_PASSWORD_XOR, ok)
  /\ trace' = Append(trace, spc)
  /\ spc' = Following(spc)
  /\ UNCHANGED <<prog, input, plain, enc, len, key, secret, heap, result, frees, uaf>>
  /\ UNCHANGED <<flatVars, passVars, uses, API_KEY>>

\* printf("API Key: %s\n", API_KEY);
PrintApiKey ==
  /\ spc = "printf API_KEY"
  /\ uses' = Append(uses, [callee |-> "printf", ptr |-> API_KEY.ptr])
  /\ trace' = Append(trace, spc)
  /\ spc' = Following(spc)
  /\ UNCHANGED <<prog, input, plain, enc, len, key, secret, heap, result, frees, uaf>>
  /\ UNCHANGED <<flatVars, passVars, API_KEY, DB_PASSWORD>>

\* printf("DB Pass: %s\n", DB_PASSWORD);
PrintDbPassword ==
  /\ spc = "printf DB_PASSWORD"
  /\ uses' = Append(uses, [callee |-> "printf", ptr |-> DB_PASSWORD.ptr])
  /\ trace' = Append(trace, spc)
  /\ spc' = Following(spc)
  /\ UNCHANGED <<prog, input, plain, enc, len, key, secret, heap, result, frees, uaf>>
  /\ UNCHANGED <<flatVars, passVars, API_KEY, DB_PASSWORD>>

\* return 0; (main)
MainReturn ==
  /\ spc = "return 0"
  /\ result' = IntVal(0)
  /\ trace' = Append(trace, spc)
  /\ spc' = Following(spc)
  /\ UNCHANGED <<prog, input, plain, enc, len, key, secret, heap, frees, uaf>>
  /\ UNCHANGED <<flatVars, passVars, uses, API_KEY, DB_PASSWORD>>

StrNext ==
  \/ CheckInput \/ Decrypt \/ CheckSecret \/ Compare \/ SecureFree \/ ReturnResult
  \/ InitApiKey \/ InitDbPassword \/ PrintApiKey \/ PrintDbPassword \/ MainReturn

SpecStr == StrInit /\ [][StrNext]_vars

\* C14: runOnModule runs renameFunctions, renameVariables and stripDebugInfo
\* once each in this order, each step on the module the step before it
\* left and whatever the earlier steps returned, and it returns the logical
\* OR of the three results.
C14_StepsInOrderFlagIsOr ==
  LET rf == renameFunctions(IR0)
      rv == renameVariables(rf.M)
      sd == stripDebugInfo(rv.M)
  IN  /\ ppc = "renameFunctions" =>
           (rets = <<>> /\ IR = IR0 /\ ~modified)
      /\ ppc = "renameVariables" =>
           (rets = <<rf.modified>> /\ IR = rf.M /\ modified = rf.modified)
      /\ ppc = "stripDebugInfo" =>
           /\ rets = <<rf.modified, rv.modified>>
           /\ IR = rv.M
           /\ modified = (rf.modified \/ rv.modified)
      /\ ppc = "done" =>
           /\ rets = <<rf.modified, rv.modified, sd.modified>>
           /\ IR = sd.M
           /\ modified = (rf.modified \/ rv.modified \/ sd.modified)

\* Witness of C14: runOnModule returned true although the last step
\* returned false, after renaming and stripping both ran.
C14_Witness ==
  /\ ppc = "done" /\ modified
  /\ rets = <<TRUE, TRUE, FALSE>>
  /\ IR # IR0

\* C15: a run that finds nothing to transform reports modified = false:
\* whenever the module after runOnModule is identical to the module before
\* it, runOnModule returns false.
C15_UnchangedModuleReportsFalse ==
  (ppc = "done" /\ IR = IR0) => ~modified

\* A direct call to a function named with the "llvm.dbg." prefix.
C16_DirectDebugCall(m, I) ==
  /\ I.op = "call"
  /\ I.callee \in DOMAIN m.funcs
  /\ startswith(m.funcs[I.callee].name, LLVM_DBG_DOT)

\* Between the modules before and after: the functions, their names,
\* arguments and blocks are the same, and each block holds what it held,
\* in the same order, without the direct debug calls.
C16_Frame(before, after) ==
  /\ DOMAIN after.funcs = DOMAIN before.funcs
  /\ after.LastUnique = before.LastUnique
  /\ \A f \in DOMAIN before.funcs :
       LET F == before.funcs[f]
           G == after.funcs[f]
       IN  /\ G.name = F.name /\ G.args = F.args
           /\ G.decl = F.decl /\ G.linkage = F.linkage
           /\ G.LastUnique = F.LastUnique
           /\ DOMAIN G.blocks = DOMAIN F.blocks
           /\ \A b \in DOMAIN F.blocks :
                G.blocks[b] =
                  SelectSeq(F.blocks[b], LAMBDA I : ~C16_DirectDebugCall(before, I))

\* C16: stripDebugInfo changes nothing except the debug calls and the
\* compile-unit metadata: every terminator and every instruction that is not
\* a direct call to an "llvm.dbg." function, indirect calls included, stays
\* in its block in the same relative order, and no function, argument or
\* value name changes. Checked for the step of runOnModule and for
\* stripDebugInfo applied to the input module.
C16_StripChangesNothingElse ==
  /\ ppc = "done" => C16_Frame(pre, IR)
  /\ ppc = "renameFunctions" => C16_Frame(IR, stripDebugInfo(IR).M)

\* Witness of C16: stripDebugInfo erased a debug call from a block that
\* also holds an indirect call, a named value and a terminator.
C16_Witness ==
  /\ ppc = "done"
  /\ \E f \in DOMAIN pre.funcs : \E b \in DOMAIN pre.funcs[f].blocks :
       LET B == pre.funcs[f].blocks[b]
       IN  /\ \E i \in DOMAIN B : C16_DirectDebugCall(pre, B[i])
           /\ \E i \in DOMAIN B : B[i].op = "call" /\ B[i].callee = 0
           /\ \E i \in DOMAIN B : B[i].op = "ret"
           /\ Len(IR.funcs[f].blocks[b]) < Len(B)

\* The module after renameFunctions and renameVariables.
C19_Renamed(m) == renameVariables(renameFunctions(m).M).M

C6_DecryptInvertsEncrypt ==
  (secret = "buf" /\ heap.state = "live") =>
    /\ Len(heap.bytes) = Len(plain) + 1
    /\ SubSeq(heap.bytes, 1, Len(plain)) = plain
    /\ heap.bytes[Len(plain) + 1] = 0
    /\ prog = "check_password" => CStr(heap.bytes) = <<97, 100, 109, 105, 110, 49, 50, 51>>

\* Witness of C6: a decrypted buffer of a plaintext that holds a zero byte
\* and a byte equal to the key.
C6_Witness ==
  /\ prog = "decrypt" /\ secret = "buf" /\ heap.state = "live"
  /\ \E i, j \in DOMAIN plain : plain[i] = 0 /\ plain[j] = key

\* C7: with allocation succeeding, the encrypted check_password returns what
\* the original check_password returns: 1 exactly for "admin123".
C7_SameResultAsOriginal ==
  (prog = "check_password" /\ spc = "done" /\ secret # "null") =>
    /\ result = IntVal(check_password(input))
    /\ result = IntVal(1) <=> input = <<97, 100, 109, 105, 110, 49, 50, 51>>

\* Witness of C7: the function returned 1 after comparing with the
\* decrypted buffer.
C7_Witness ==
  /\ prog = "check_password" /\ spc = "done" /\ secret = "buf"
  /\ result = IntVal(1)

\* C10: a non-null decrypted buffer has been handed to _secure_free exactly
\* once when check_password returns, is never used after its release and is
\* never released twice.
C10_BufferReleasedOnEveryPath ==
  prog = "check_password" =>
    /\ ~uaf
    /\ frees <= 1
    /\ (spc = "done" /\ secret = "buf") => (heap.state = "freed" /\ frees = 1)
    /\ (spc = "done" /\ secret # "buf") => (heap.state = "none" /\ frees = 0)

\* Witness of C10: check_password returned after decrypting into a buffer.
C10_Witness ==
  /\ prog = "check_password" /\ spc = "done" /\ secret = "buf" /\ frees = 1

\* C11: the secure wipe zeroes every byte of the decrypted buffer: for every
\* ciphertext of length n and every key, when _secure_free has released the
\* buffer returned by decrypt, all n plaintext bytes of it are zero.
C11_WipeZeroesEveryByte ==
  heap.state = "freed" => \A i \in 1..len : heap.bytes[i] = 0

\* C12: on allocation failure the decrypt routine returns a null buffer
\* without writing anything, and no null decrypted buffer is ever passed to
\* strcmp (check_password) or to printf (main printing API_KEY and
\* DB_PASSWORD).
C12_NullBufferNeverUsed ==
  /\ secret = "null" => heap = [state |-> "none", bytes |-> <<>>]
  /\ \A g \in {API_KEY, DB_PASSWORD} : g.ptr = "null" => g.bytes = <<>>
  /\ \A i \in DOMAIN uses : uses[i].ptr # "null"

\* The positions of statement stmt in the trace.
Occurrences(stmt) == {i \in DOMAIN trace : trace[i] = stmt}

\* C13: _init_encrypted_strings runs exactly once per process and completes
\* before the first statement of main; API_KEY and DB_PASSWORD are each
\* assigned by exactly one decrypt call and are never decrypted or
\* reassigned once main runs.
C13_InitOnceBeforeMain ==
  /\ [](prog = "main" =>
         /\ \A a \in {"API_KEY = _xor_decrypt", "DB_PASSWORD = _xor_decrypt"} :
              /\ Cardinality(Occurrences(a)) <= 1
              /\ \A m \in {"printf API_KEY", "printf DB_PASSWORD", "return 0"} :
                   \A i \in Occurrences(m) : \E j \in Occurrences(a) : j < i
         /\ spc \in {"printf API_KEY", "printf DB_PASSWORD", "return 0"} =>
              \A a \in {"API_KEY = _xor_decrypt", "DB_PASSWORD = _xor_decrypt"} :
                Cardinality(Occurrences(a)) = 1)
  /\ [][/\ API_KEY' # API_KEY => (spc = "API_KEY = _xor_decrypt" /\ trace = <<>>)
        /\ DB_PASSWORD' # DB_PASSWORD =>
             (spc = "DB_PASSWORD = _xor_decrypt" /\ trace = <<"API_KEY = _xor_decrypt">>)
       ]_vars

\* Witness of C13: main returned after printing both constants, each
\* decrypted into a buffer by the initializer.
C13_Witness ==
  /\ prog = "main" /\ spc = "done"
  /\ API_KEY.ptr = "buf" /\ DB_PASSWORD.ptr = "buf"
  /\ trace = <<"API_KEY = _xor_decrypt", "DB_PASSWORD = _xor_decrypt",
               "printf API_KEY", "printf DB_PASSWORD", "return 0">>

====
